---------------------------- MODULE Spec2Model ----------------------------
(***************************************************************************)
(* A model of dynamic_bitset<N> (Source/dynamic_bitset.hpp).               *)
(*                                                                         *)
(* Two objects "a" and "b" of one type dynamic_bitset<N> live in the       *)
(* program.  bits_[x] is the std::vector<bool> member of object x, index 0 *)
(* of the C++ vector being position 1 of the TLA+ sequence (At(bs, i)      *)
(* reads C++ index i).  Every public operation is one action.  The last    *)
(* call, its arguments, its result and the contents before it are kept     *)
(* until the caller has taken the result (Return), so that the operations' *)
(* contracts are state predicates of the state a call returns in.          *)
(*                                                                         *)
(* std::size_t is 64 bits wide and int has 31 value bits; every length and *)
(* value of the model stays far below both, so no arithmetic of the model  *)
(* wraps and the integers are used unreduced.                              *)
(***************************************************************************)
EXTENDS Integers, Sequences, FiniteSets

\* ------------------------------------------------------------- bounds
\* Longest vector, string or token handed to the bitset.
MaxLen == 3
\* Largest template parameter N.
MaxN == 3
\* Largest int handed to the int constructor.
MaxInt == 7

Objs == {"a", "b"}
\* '0', '1' and any other non-whitespace character.
Chars == {"0", "1", "x"}
BoolSeqs == UNION {[1..n -> BOOLEAN] : n \in 0..MaxLen}
Texts == UNION {[1..n -> Chars] : n \in 0..MaxLen}
Ints == 0..MaxInt
\* Shift amounts and indexes, up to past the longest storage.
Amounts == 0..(MaxLen + 1)

VARIABLES
  N,        \* the template parameter of the type of both objects
  live,     \* live[x]: x is constructed and not yet destroyed
  bits_,    \* bits_[x]: the member std::vector<bool> bits_ of x
  status,   \* "ok", or "crashed" once undefined behaviour ended the program
  pc,       \* "ready" for the next call, "returned" from the last one
  op,       \* the last operation
  self,     \* the object it was called on
  other,    \* its dynamic_bitset argument (self when it has none)
  arg,      \* its integer argument: value, shift amount or index
  argBool,  \* its bool argument
  srcBits,  \* its std::vector<bool> / initializer_list argument
  srcText,  \* its string argument, or the token read from the stream
  old,      \* bits_ before the operation
  ret,      \* the dynamic_bitset or bool it returned (as a sequence)
  retText,  \* the std::string it returned
  retNum,   \* the std::size_t it returned
  err,      \* "none", or the exception it threw
  oob       \* it indexed bits_ outside [0, size())

vars == <<N, live, bits_, status, pc, op, self, other, arg, argBool, srcBits,
          srcText, old, ret, retText, retNum, err, oob>>

\* ------------------------------------------------------------ helpers
Min(m, n) == IF m < n THEN m ELSE n

\* bs[i] of the C++ vector (0-based).
At(bs, i) == bs[i + 1]

\* std::vector<bool>(n): n value-initialised (false) bits.
Zeros(n) == [i \in 1..n |-> FALSE]

RECURSIVE add_padding(_, _)
\* Mutant: the padding is appended instead of inserted at begin().
add_padding_back(base, number_of_padding) ==
  IF number_of_padding > 0 THEN base \o Zeros(number_of_padding) ELSE base

\* for (i = 0; i < number_of_padding; ++i) base.insert(base.begin(), 0);
add_padding(base, number_of_padding) ==
  IF number_of_padding <= 0 THEN base
  ELSE add_padding(<<FALSE>> \o base, number_of_padding - 1)

\* int number_of_padding = bits_.size() - x.size(): the unsigned difference
\* narrowed to int is the signed difference for every size of the model.
number_of_padding(size, length) == size - length

RECURSIVE int_to_binary_loop(_, _)
\* while (value > 0) { temp.insert(temp.begin(), value % 2); value /= 2; }
int_to_binary_loop(value, temp) ==
  IF value > 0
    THEN int_to_binary_loop(value \div 2, <<(value % 2) = 1>> \o temp)
    ELSE temp

\* After the loop value is 0 (value >= 0): emplace_back(value) adds false.
int_to_binary(value) ==
  LET temp == int_to_binary_loop(value, <<>>)
  IN  IF temp = <<>> THEN <<FALSE>> ELSE temp

\* string_to_bitset, with size the current bits_.size().
string_to_bitset(size, binary_string) ==
  add_padding([i \in 1..Len(binary_string) |-> binary_string[i] = "1"],
              number_of_padding(size, Len(binary_string)))

\* ------------------------------------------------------- constructors
\* Each constructor starts from bits_(N), so bits_.size() is N.
ctor_default(n) == Zeros(n)

ctor_int(n, value) ==
  LET binary == int_to_binary(value)
  IN  add_padding(binary, number_of_padding(n, Len(binary)))

ctor_vector(n, binaries) ==
  add_padding(binaries, number_of_padding(n, Len(binaries)))

ctor_init_list(n, binaries) ==
  add_padding(binaries, number_of_padding(n, Len(binaries)))

ctor_string(n, binary_string) == string_to_bitset(n, binary_string)

ctor_cstr(n, binary) ==
  add_padding([i \in 1..Len(binary) |-> binary[i] = "1"],
              number_of_padding(n, Len(binary)))

\* --------------------------------------------------- member functions
\* operator=(const std::vector<bool> &): the padding is counted from the
\* current bits_.size(), then bits_ is replaced and padded.
assign_vector(bs, binaries) ==
  add_padding(binaries, number_of_padding(Len(bs), Len(binaries)))

\* operator>>(std::istream &, dynamic_bitset &) once the token str is read.
stream_in(bs, str) == string_to_bitset(Len(bs), str)

\* std::reverse(begin, end)
reverse(bs) == [i \in 1..Len(bs) |-> bs[Len(bs) + 1 - i]]

\* Mutant: set(value) resizes the storage to N bits of value.
set_resize(bs, value) == [i \in 1..N |-> value]

\* std::fill(begin, end, value)
set(bs, value) == [i \in 1..Len(bs) |-> value]

reset(bs) == set(bs, FALSE)

\* Mutant: the characters are pushed for bit == false.
to_string_inverted(bs) == [i \in 1..Len(bs) |-> IF bs[i] THEN "0" ELSE "1"]

to_string(bs) == [i \in 1..Len(bs) |-> IF bs[i] THEN "1" ELSE "0"]

RECURSIVE to_ulong_loop(_, _, _, _)
\* for (it = rbegin; it != rend; ++it) { if (*it) value += power; power *= 2; }
\* it is the 1-based position the reverse iterator points at, 0 at rend().
to_ulong_loop(bs, it, value, power) ==
  IF it = 0 THEN value
  ELSE to_ulong_loop(bs, it - 1,
                     IF bs[it] THEN value + power ELSE value, power * 2)

RECURSIVE to_ulong_forward(_, _, _, _)
\* Mutant: the loop runs begin() to end(), index 0 least significant.
to_ulong_forward(bs, it, value, power) ==
  IF it > Len(bs) THEN value
  ELSE to_ulong_forward(bs, it + 1,
                        IF bs[it] THEN value + power ELSE value, power * 2)

\* Mutant of to_ulong.
to_ulong_lsb_first(bs) == to_ulong_forward(bs, 1, 0, 1)

to_ulong(bs) == to_ulong_loop(bs, Len(bs), 0, 1)

\* Mutant: the last index is refused too.
in_range_short(bs, index) == index + 1 < Len(bs)

\* std::vector<bool>::at(index) throws std::out_of_range unless this holds.
in_range(bs, index) == index < Len(bs)

\* operator&: set.emplace_back(other[i] && bits_[i]) for i < min(size(),
\* other.size()), then return dynamic_bitset(set): the vector constructor of
\* dynamic_bitset<N>.
op_and(n, a, b) ==
  ctor_vector(n, [i \in 1..Min(Len(a), Len(b)) |-> b[i] /\ a[i]])

\* operator|
op_or(n, a, b) ==
  ctor_vector(n, [i \in 1..Min(Len(a), Len(b)) |-> b[i] \/ a[i]])

\* operator^
op_xor(n, a, b) ==
  ctor_vector(n, [i \in 1..Min(Len(a), Len(b)) |-> b[i] # a[i]])

\* Mutant: the loop runs over all of bits_ and reads the bits other lacks
\* as false.
op_and_assign_zero_extended(a, b) ==
  [i \in 1..Len(a) |-> a[i] /\ (IF i <= Len(b) THEN b[i] ELSE FALSE)]

\* operator&=: bits_[i] = bits_[i] && other.bits_[i] for i < min(size(),
\* other.size()).
op_and_assign(a, b) ==
  [i \in 1..Len(a) |-> IF i <= Min(Len(a), Len(b)) THEN a[i] /\ b[i] ELSE a[i]]

\* operator|=
op_or_assign(a, b) ==
  [i \in 1..Len(a) |-> IF i <= Min(Len(a), Len(b)) THEN a[i] \/ b[i] ELSE a[i]]

\* operator^=
op_xor_assign(a, b) ==
  [i \in 1..Len(a) |-> IF i <= Min(Len(a), Len(b)) THEN a[i] # b[i] ELSE a[i]]

\* ------------------------------------------------------------- shifts
\* bits_[j] as operator<<= reads it: inside the storage the bit, outside it
\* whatever the word behind the storage holds (garbage[j - size() + 1]).
shl_read(bs, j, garbage) ==
  IF j < Len(bs) THEN At(bs, j) ELSE garbage[j - Len(bs) + 1]

RECURSIVE shl_copy(_, _, _, _, _)
\* for (i = 0; i < bits_.size(); ++i) bits_[i] = bits_[i + shift_amount];
\* run from i up to stop.
shl_copy(bs, shift_amount, i, stop, garbage) ==
  IF i >= stop THEN bs
  ELSE shl_copy([bs EXCEPT ![i + 1] = shl_read(bs, i + shift_amount, garbage)],
                shift_amount, i + 1, stop, garbage)

\* Mutant: the fill loop is missing.
shl_fill_missing(bs, shift_amount) == bs

\* for (i = bits_.size() - shift_amount; i < bits_.size(); ++i) bits_[i] = false;
shl_fill(bs, shift_amount) ==
  [i \in 1..Len(bs) |-> IF i - 1 >= Len(bs) - shift_amount THEN FALSE ELSE bs[i]]

\* operator<<= when it runs to its end.
op_shl_assign(bs, shift_amount, garbage) ==
  IF shift_amount >= Len(bs) THEN Zeros(Len(bs))
  ELSE shl_fill(shl_copy(bs, shift_amount, 0, Len(bs), garbage), shift_amount)

\* operator<<= stopped at its first read outside the storage, index size().
op_shl_assign_stopped(bs, shift_amount) ==
  shl_copy(bs, shift_amount, 0, Len(bs) - shift_amount, <<>>)

\* The indexes operator<<= hands to bits_[...].
shl_indexes(bs, shift_amount) ==
  IF shift_amount >= Len(bs) THEN {}
  ELSE UNION {{i, i + shift_amount} : i \in 0..(Len(bs) - 1)}

RECURSIVE shr_copy(_, _, _)
\* for (i = bits_.size() - 1; i >= shift_amount; --i)
\*   bits_[i] = bits_[i - shift_amount];
\* for shift_amount > 0, where i reaches shift_amount - 1 and the loop ends.
shr_copy(bs, shift_amount, i) ==
  IF i < shift_amount THEN bs
  ELSE shr_copy([bs EXCEPT ![i + 1] = At(bs, i - shift_amount)],
                shift_amount, i - 1)

\* for (i = 0; i < shift_amount; ++i) bits_[i] = false;
shr_fill(bs, shift_amount) ==
  [i \in 1..Len(bs) |-> IF i - 1 < shift_amount THEN FALSE ELSE bs[i]]

\* operator>>= runs to its end unless 0 = shift_amount < size(): then
\* i >= shift_amount holds of every std::size_t, i wraps below 0 and the
\* loop indexes bits_ far outside the storage.
shr_terminates(bs, shift_amount) ==
  shift_amount >= Len(bs) \/ shift_amount > 0

op_shr_assign(bs, shift_amount) ==
  IF shift_amount >= Len(bs) THEN Zeros(Len(bs))
  ELSE shr_fill(shr_copy(bs, shift_amount, Len(bs) - 1), shift_amount)

\* std::size_t size() const
size(bs) == Len(bs)

\* ------------------------------------------------------------ actions
\* The program is running and between two calls.
Ready == status = "ok" /\ pc = "ready"

\* The record of the call: what was called, on what, with what.
Did(o, x, y, k, v, sb, st) ==
  /\ pc' = "returned"
  /\ op' = o /\ self' = x /\ other' = y /\ arg' = k /\ argBool' = v
  /\ srcBits' = sb /\ srcText' = st /\ old' = bits_

\* The record of its outcome.
Gave(r, rt, rn, e, ob) ==
  /\ ret' = r /\ retText' = rt /\ retNum' = rn /\ err' = e /\ oob' = ob

\* The call returned nothing, threw nothing and stayed inside the storage.
GaveNothing == Gave(<<>>, <<>>, 0, "none", FALSE)

Init ==
  /\ N \in 0..MaxN
  /\ live = [x \in Objs |-> TRUE]
  /\ bits_ = [x \in Objs |-> ctor_default(N)]
  /\ status = "ok"
  /\ pc = "ready"
  /\ op = "none" /\ self = "a" /\ other = "a"
  /\ arg = 0 /\ argBool = FALSE /\ srcBits = <<>> /\ srcText = <<>>
  /\ old = [x \in Objs |-> <<>>]
  /\ ret = <<>> /\ retText = <<>> /\ retNum = 0 /\ err = "none" /\ oob = FALSE

\* x is constructed with contents bs.
Construct(o, x, k, sb, st, bs) ==
  /\ ~live[x]
  /\ live' = [live EXCEPT ![x] = TRUE]
  /\ bits_' = [bits_ EXCEPT ![x] = bs]
  /\ Did(o, x, x, k, FALSE, sb, st) /\ GaveNothing
  /\ UNCHANGED <<N, status>>

\* x is changed in place to bs.
Mutate(o, x, y, k, v, sb, st, bs) ==
  /\ live[x] /\ live[y]
  /\ bits_' = [bits_ EXCEPT ![x] = bs]
  /\ Did(o, x, y, k, v, sb, st) /\ GaveNothing
  /\ UNCHANGED <<N, live, status>>

\* A const member function of x is called.
Observe(o, x, y, k, r, rt, rn, e) ==
  /\ live[x] /\ live[y]
  /\ Did(o, x, y, k, FALSE, <<>>, <<>>) /\ Gave(r, rt, rn, e, FALSE)
  /\ UNCHANGED <<N, live, bits_, status>>

\* ~dynamic_bitset()
Destroy ==
  /\ Ready
  /\ \E x \in Objs :
    /\ live[x]
    /\ live' = [live EXCEPT ![x] = FALSE]
    /\ bits_' = [bits_ EXCEPT ![x] = <<>>]
    /\ Did("dtor", x, x, 0, FALSE, <<>>, <<>>) /\ GaveNothing
    /\ UNCHANGED <<N, status>>

ConstructDefault ==
  /\ Ready
  /\ \E x \in Objs : Construct("ctor_default", x, 0, <<>>, <<>>, ctor_default(N))

ConstructInt ==
  /\ Ready
  /\ \E x \in Objs, value \in Ints :
    Construct("ctor_int", x, value, <<>>, <<>>, ctor_int(N, value))

ConstructVector ==
  /\ Ready
  /\ \E x \in Objs, binaries \in BoolSeqs :
    Construct("ctor_vector", x, 0, binaries, <<>>, ctor_vector(N, binaries))

ConstructInitList ==
  /\ Ready
  /\ \E x \in Objs, binaries \in BoolSeqs :
    Construct("ctor_init_list", x, 0, binaries, <<>>,
              ctor_init_list(N, binaries))

ConstructString ==
  /\ Ready
  /\ \E x \in Objs, binary_string \in Texts :
    Construct("ctor_string", x, 0, <<>>, binary_string,
              ctor_string(N, binary_string))

ConstructCStr ==
  /\ Ready
  /\ \E x \in Objs, binary \in Texts :
    Construct("ctor_cstr", x, 0, <<>>, binary, ctor_cstr(N, binary))

\* dynamic_bitset(dynamic_bitset &&other): bits_(std::move(other.bits_)); the
\* moved-from vector is left empty.
MoveConstruct ==
  /\ Ready
  /\ \E x \in Objs, y \in Objs :
    /\ ~live[x] /\ live[y]
    /\ live' = [live EXCEPT ![x] = TRUE]
    /\ bits_' = [bits_ EXCEPT ![x] = bits_[y], ![y] = <<>>]
    /\ Did("move_ctor", x, y, 0, FALSE, <<>>, <<>>) /\ GaveNothing
    /\ UNCHANGED <<N, status>>

\* operator=(dynamic_bitset &&other): nothing when this == &other.
MoveAssign ==
  /\ Ready
  /\ \E x \in Objs, y \in Objs :
    /\ live[x] /\ live[y]
    /\ bits_' = IF x # y THEN [bits_ EXCEPT ![x] = bits_[y], ![y] = <<>>]
                ELSE bits_
    /\ Did("move_assign", x, y, 0, FALSE, <<>>, <<>>) /\ GaveNothing
    /\ UNCHANGED <<N, live, status>>

AssignVector ==
  /\ Ready
  /\ \E x \in Objs, binaries \in BoolSeqs :
    Mutate("assign_vector", x, x, 0, FALSE, binaries, <<>>,
           assign_vector(bits_[x], binaries))

\* operator>>: str is the token the stream gives, empty when it gives none.
StreamIn ==
  /\ Ready
  /\ \E x \in Objs, str \in Texts :
    Mutate("stream_in", x, x, 0, FALSE, <<>>, str, stream_in(bits_[x], str))

Reverse ==
  /\ Ready
  /\ \E x \in Objs :
    Mutate("reverse", x, x, 0, FALSE, <<>>, <<>>, reverse(bits_[x]))

Set ==
  /\ Ready
  /\ \E x \in Objs, value \in BOOLEAN :
    Mutate("set", x, x, 0, value, <<>>, <<>>, set(bits_[x], value))

Reset ==
  /\ Ready
  /\ \E x \in Objs :
    Mutate("reset", x, x, 0, FALSE, <<>>, <<>>, reset(bits_[x]))

\* bool operator[](std::size_t index) const
ReadConst ==
  /\ Ready
  /\ \E x \in Objs, index \in Amounts :
    IF in_range(bits_[x], index)
      THEN Observe("read_const", x, x, index, <<At(bits_[x], index)>>,
                   <<>>, 0, "none")
      ELSE Observe("read_const", x, x, index, <<>>, <<>>, 0, "out_of_range")

\* std::vector<bool>::reference operator[](std::size_t index), read
ReadRef ==
  /\ Ready
  /\ \E x \in Objs, index \in Amounts :
    IF in_range(bits_[x], index)
      THEN Observe("read_ref", x, x, index, <<At(bits_[x], index)>>,
                   <<>>, 0, "none")
      ELSE Observe("read_ref", x, x, index, <<>>, <<>>, 0, "out_of_range")

\* std::vector<bool>::reference operator[](std::size_t index), assigned to
WriteRef ==
  /\ Ready
  /\ \E x \in Objs, index \in Amounts, value \in BOOLEAN :
    /\ live[x]
    /\ IF in_range(bits_[x], index)
         THEN /\ bits_' = [bits_ EXCEPT ![x][index + 1] = value]
              /\ GaveNothing
         ELSE /\ bits_' = bits_
              /\ Gave(<<>>, <<>>, 0, "out_of_range", FALSE)
    /\ Did("write_ref", x, x, index, value, <<>>, <<>>)
    /\ UNCHANGED <<N, live, status>>

ToString ==
  /\ Ready
  /\ \E x \in Objs :
    Observe("to_string", x, x, 0, <<>>, to_string(bits_[x]), 0, "none")

ToUlong ==
  /\ Ready
  /\ \E x \in Objs :
    Observe("to_ulong", x, x, 0, <<>>, <<>>, to_ulong(bits_[x]), "none")

And ==
  /\ Ready
  /\ \E x \in Objs, y \in Objs :
    Observe("and", x, y, 0, op_and(N, bits_[x], bits_[y]), <<>>, 0, "none")

Or ==
  /\ Ready
  /\ \E x \in Objs, y \in Objs :
    Observe("or", x, y, 0, op_or(N, bits_[x], bits_[y]), <<>>, 0, "none")

Xor ==
  /\ Ready
  /\ \E x \in Objs, y \in Objs :
    Observe("xor", x, y, 0, op_xor(N, bits_[x], bits_[y]), <<>>, 0, "none")

AndAssign ==
  /\ Ready
  /\ \E x \in Objs, y \in Objs :
    Mutate("and_assign", x, y, 0, FALSE, <<>>, <<>>,
           op_and_assign(bits_[x], bits_[y]))

OrAssign ==
  /\ Ready
  /\ \E x \in Objs, y \in Objs :
    Mutate("or_assign", x, y, 0, FALSE, <<>>, <<>>,
           op_or_assign(bits_[x], bits_[y]))

XorAssign ==
  /\ Ready
  /\ \E x \in Objs, y \in Objs :
    Mutate("xor_assign", x, y, 0, FALSE, <<>>, <<>>,
           op_xor_assign(bits_[x], bits_[y]))

\* operator<<=.  With 0 < shift_amount < size() the copy loop reads
\* bits_[size()] .. bits_[size() + shift_amount - 1], outside the storage:
\* undefined behaviour.  An unchecked operator[] returns whatever bit lies
\* there and the call runs on; a checked one (a hardened standard library,
\* a sanitizer) ends the program at the first such read.
ShiftLeft ==
  /\ Ready
  /\ \E x \in Objs, shift_amount \in Amounts :
    LET bs == bits_[x]
        outside == \E j \in shl_indexes(bs, shift_amount) : j >= Len(bs)
    IN  /\ live[x]
        /\ Did("shl", x, x, shift_amount, FALSE, <<>>, <<>>)
        /\ Gave(<<>>, <<>>, 0, "none", outside)
        /\ \/ /\ ~outside
              /\ bits_' = [bits_ EXCEPT ![x] = op_shl_assign(bs, shift_amount, <<>>)]
              /\ status' = "ok"
           \/ /\ outside
              /\ \E garbage \in [1..shift_amount -> BOOLEAN] :
                   bits_' = [bits_ EXCEPT
                               ![x] = op_shl_assign(bs, shift_amount, garbage)]
              /\ status' = "ok"
           \/ /\ outside
              /\ bits_' = [bits_ EXCEPT
                             ![x] = op_shl_assign_stopped(bs, shift_amount)]
              /\ status' = "crashed"
        /\ UNCHANGED <<N, live>>

\* operator>>=.  With 0 = shift_amount < size() the copy loop never ends by
\* its condition: after i = 0 it indexes bits_[SIZE_MAX], bits_[SIZE_MAX - 1],
\* ... (undefined behaviour) until the program is ended; the bits inside the
\* storage were assigned to themselves.
ShiftRight ==
  /\ Ready
  /\ \E x \in Objs, shift_amount \in Amounts :
    LET bs == bits_[x]
    IN  /\ live[x]
        /\ Did("shr", x, x, shift_amount, FALSE, <<>>, <<>>)
        /\ \/ /\ shr_terminates(bs, shift_amount)
              /\ bits_' = [bits_ EXCEPT ![x] = op_shr_assign(bs, shift_amount)]
              /\ status' = "ok"
              /\ GaveNothing
           \/ /\ ~shr_terminates(bs, shift_amount)
              /\ bits_' = bits_
              /\ status' = "crashed"
              /\ Gave(<<>>, <<>>, 0, "none", TRUE)
        /\ UNCHANGED <<N, live>>

\* The caller has taken the result of the call and goes on.  Nothing
\* returns, and nothing is called again, once the program has been ended.
Return ==
  /\ status = "ok" /\ pc = "returned"
  /\ pc' = "ready"
  /\ op' = "none" /\ self' = "a" /\ other' = "a"
  /\ arg' = 0 /\ argBool' = FALSE /\ srcBits' = <<>> /\ srcText' = <<>>
  /\ old' = [x \in Objs |-> <<>>]
  /\ GaveNothing
  /\ UNCHANGED <<N, live, bits_, status>>

Next ==
  \/ Destroy \/ ConstructDefault \/ ConstructInt \/ ConstructVector
  \/ ConstructInitList \/ ConstructString \/ ConstructCStr
  \/ MoveConstruct \/ MoveAssign \/ AssignVector \/ StreamIn
  \/ Reverse \/ Set \/ Reset \/ ReadConst \/ ReadRef \/ WriteRef
  \/ ToString \/ ToUlong \/ And \/ Or \/ Xor
  \/ AndAssign \/ OrAssign \/ XorAssign \/ ShiftLeft \/ ShiftRight
  \/ Return

Spec == Init /\ [][Next]_vars

\* ------------------------------------------------------------ claims
\* What the contracts are stated with, defined apart from the operations.

\* A call of o has just returned (or ended the program).
Called(o) == pc = "returned" /\ op = o

\* s behind n - Len(s) false bits, for Len(s) <= n.
LeftPadded(n, s) ==
  [i \in 1..n |-> IF i <= n - Len(s) THEN FALSE ELSE s[i - (n - Len(s))]]

RECURSIVE SumValue(_, _)
\* The sum over the C++ indexes below i of bs[index] * 2^(L - 1 - index).
SumValue(bs, i) ==
  IF i = 0 THEN 0
  ELSE (IF bs[i] THEN 2 ^ (Len(bs) - i) ELSE 0) + SumValue(bs, i - 1)

BigEndianValue(bs) == SumValue(bs, Len(bs))

\* The binary representation of v, most significant bit first, without
\* leading zeros; a single false bit for 0.
BinaryOf(v) ==
  IF v = 0 THEN <<FALSE>>
  ELSE CHOOSE s \in UNION {[1..n -> BOOLEAN] : n \in 1..v} :
         s[1] /\ BigEndianValue(s) = v

\* The bits a text stands for: '1' is true, every other character false.
TextBits(t) == [i \in 1..Len(t) |-> t[i] = "1"]

BinaryOps == {"and", "or", "xor"}
InPlaceBinaryOps == {"and_assign", "or_assign", "xor_assign"}
InPlaceOps ==
  InPlaceBinaryOps \cup {"shl", "shr", "reverse", "set", "reset", "write_ref"}

\* p OP q for the operator the call was of.
Combined(o, p, q) ==
  CASE o \in {"and", "and_assign"} -> p /\ q
    [] o \in {"or", "or_assign"} -> p \/ q
    [] OTHER -> p # q

\* C1: each of a & b, a | b and a ^ b returns a bitset of length
\* min(len(a), len(b)) whose bit i is a[i] AND / OR / XOR b[i], for any two
\* bitsets of one dynamic_bitset<N> in any reachable state.
C1_NonAssigningMinLength ==
  (pc = "returned" /\ op \in BinaryOps) =>
    LET a == bits_[self]
        b == bits_[other]
        m == Min(Len(a), Len(b))
    IN  /\ Len(ret) = m
        /\ \A i \in 1..m : ret[i] = Combined(op, a[i], b[i])

\* C2: after y <<= k the length is as before and bit i is old[i + k] when
\* i + k < L and false otherwise.
C2_LeftShiftZeroFill ==
  (Called("shl") /\ status = "ok") =>
    LET o == old[self]
        n == bits_[self]
    IN  /\ Len(n) = Len(o)
        /\ \A i \in 0..(Len(o) - 1) :
             At(n, i) = (IF i + arg < Len(o) THEN At(o, i + arg) ELSE FALSE)

\* A shift by 0 < k < L of a bitset whose last bit is set, which read
\* outside the storage and returned.
C2_Witness ==
  /\ Called("shl") /\ status = "ok" /\ oob
  /\ 0 < arg /\ arg < Len(old[self])
  /\ old[self][Len(old[self])]
  /\ bits_[self][1]

\* C3: y >>= k completes for every k >= 0, and afterwards the length is as
\* before, bit i is old[i - k] for i in [k, L) and false for i in
\* [0, min(k, L)).
C3_RightShiftZeroFill ==
  Called("shr") =>
    LET o == old[self]
        n == bits_[self]
    IN  /\ status = "ok"
        /\ Len(n) = Len(o)
        /\ \A i \in arg..(Len(o) - 1) : At(n, i) = At(o, i - arg)
        /\ \A i \in 0..(Min(arg, Len(o)) - 1) : At(n, i) = FALSE

\* C4: <<=, >>=, &=, |=, ^=, reverse(), set(value), reset() and a write
\* through operator[] leave size() as it was before the call (also when
\* the call ended the program).
C4_LengthInvariant ==
  (pc = "returned" /\ op \in InPlaceOps) =>
    size(bits_[self]) = size(old[self])

\* An in-place operation on a bitset whose length is not N, with a shorter
\* right-hand side.
C4_Witness ==
  /\ Called("or_assign")
  /\ Len(old[self]) > N
  /\ Len(old[other]) < Len(old[self])
  /\ bits_[self] # old[self]

\* C5: a &= b, a |= b, a ^= b set a[i] to a[i] OP b[i] for
\* i < min(len(a), len(b)), leave every other position of a and a's length as
\* they were, and leave the right-hand operand b (an object other than a)
\* unchanged.
C5_InPlaceFrame ==
  (pc = "returned" /\ op \in InPlaceBinaryOps) =>
    LET a == old[self]
        b == old[other]
        m == Min(Len(a), Len(b))
        n == bits_[self]
    IN  /\ Len(n) = Len(a)
        /\ \A i \in 1..m : n[i] = Combined(op, a[i], b[i])
        /\ \A i \in (m + 1)..Len(a) : n[i] = a[i]
        /\ other # self => bits_[other] = b

\* a &= b with b shorter than a, a set bit of a behind b's length and a set
\* bit of a cleared inside it.
C5_Witness ==
  /\ Called("and_assign") /\ other # self
  /\ 0 < Len(old[other]) /\ Len(old[other]) < Len(old[self])
  /\ old[self][Len(old[self])]
  /\ old[self][1] /\ ~bits_[self][1]

\* The bit representation s of the source the last constructor was given.
SourceBits ==
  CASE op = "ctor_int" -> BinaryOf(arg)
    [] op \in {"ctor_vector", "ctor_init_list"} -> srcBits
    [] OTHER -> TextBits(srcText)

\* C6: constructing dynamic_bitset<N> from a source whose bits s are no more
\* than N (a non-negative int, a bool vector, an initializer list, a
\* std::string, a C string) gives length N: N - len(s) false bits, then s.
C6_ConstructionPadsLeft ==
  (pc = "returned" /\ op \in {"ctor_int", "ctor_vector", "ctor_init_list",
                              "ctor_string", "ctor_cstr"}) =>
    (Len(SourceBits) <= N =>
       /\ size(bits_[self]) = N
       /\ bits_[self] = LeftPadded(N, SourceBits))

\* dynamic_bitset<N>(2) with N >= 3: "10" behind at least one false bit.
C6_Witness ==
  /\ Called("ctor_int") /\ arg = 2 /\ N >= 3
  /\ bits_[self][N - 1] /\ ~bits_[self][N] /\ ~bits_[self][1]

\* C7: in any reachable state, assigning a bool vector of length L <= N, or
\* reading a '0'/'1' token of length L <= N from a stream, leaves the bitset
\* with length N: N - L false bits, then the source bits.
C7_ReassignPadsToN ==
  /\ (Called("assign_vector") /\ Len(srcBits) <= N) =>
       bits_[self] = LeftPadded(N, srcBits)
  /\ (/\ Called("stream_in") /\ Len(srcText) <= N /\ Len(srcText) > 0
      /\ \A i \in 1..Len(srcText) : srcText[i] \in {"0", "1"}) =>
       bits_[self] = LeftPadded(N, TextBits(srcText))

\* C8: to_ulong() is the sum of bits[i] * 2^(L - 1 - i) (0 for an empty
\* bitset); so left padding keeps the value, and dynamic_bitset<N>(v)
\* has to_ulong() == v for every int v >= 0.
C8_ToUlongBigEndian ==
  /\ Called("to_ulong") => retNum = BigEndianValue(bits_[self])
  /\ Called("ctor_int") => to_ulong(bits_[self]) = arg
  /\ (pc = "returned" /\ op \in {"ctor_vector", "ctor_init_list"}) =>
       to_ulong(bits_[self]) = to_ulong(srcBits)

\* to_ulong() of "110" is 6.
C8_Witness ==
  /\ Called("to_ulong") /\ bits_[self] = <<TRUE, TRUE, FALSE>> /\ retNum = 6

\* C9: operator[] const and the mutable operator[] throw out_of_range for
\* every index >= size() and leave the bitset as it was; for an index below
\* size() the read returns that bit and a write through the reference
\* changes that bit only.
C9_BoundsChecked ==
  (pc = "returned" /\ op \in {"read_const", "read_ref", "write_ref"}) =>
    LET o == old[self]
    IN  /\ status = "ok"
        /\ arg >= Len(o) =>
             err = "out_of_range" /\ ret = <<>> /\ bits_ = old
        /\ arg < Len(o) =>
             /\ err = "none"
             /\ op # "write_ref" => ret = <<At(o, arg)>> /\ bits_ = old
             /\ op = "write_ref" =>
                  /\ Len(bits_[self]) = Len(o)
                  /\ At(bits_[self], arg) = argBool
                  /\ \A i \in 0..(Len(o) - 1) :
                       i # arg => At(bits_[self], i) = At(o, i)
                  /\ \A x \in Objs \ {self} : bits_[x] = old[x]

\* A write through operator[] at index size() of a bitset with a set bit:
\* it threw.
C9_Witness ==
  /\ Called("write_ref") /\ err = "out_of_range"
  /\ arg = Len(old[self]) /\ arg > 0 /\ old[self][arg] /\ ~argBool

\* C10: for v of length N, dynamic_bitset<N>(v).to_string() has N characters,
\* character i being '1' iff v[i] and '0' otherwise, and dynamic_bitset<N>
\* constructed from that string has the bits v.
C10_StringRoundTrip ==
  (Called("to_string") /\ Len(bits_[self]) = N) =>
    LET v == bits_[self]
    IN  /\ ctor_vector(N, v) = v
        /\ Len(retText) = N
        /\ \A i \in 1..N : retText[i] = (IF v[i] THEN "1" ELSE "0")
        /\ ctor_string(N, retText) = v

\* to_string() of a bitset of length N >= 2 that starts with a set bit and
\* ends with a clear one.
C10_Witness ==
  /\ Called("to_string") /\ N >= 2 /\ Len(bits_[self]) = N
  /\ bits_[self][1] /\ ~bits_[self][N]
  /\ retText[1] = "1" /\ retText[N] = "0"

\* C11: every index operator<<= hands to bits_[...] while it runs, i + k of
\* the copy loop in particular, lies in [0, L), for every length L and every
\* shift amount k.
C11_LeftShiftInsideStorage ==
  Called("shl") =>
    /\ \A j \in shl_indexes(old[self], arg) : 0 <= j /\ j < Len(old[self])
    /\ ~oob

=============================================================================
